---------------------------- MODULE Spec2Model ----------------------------
(***************************************************************************)
(* State-machine model of two leaves of the engine:                        *)
(*                                                                         *)
(*   GraphDocumentView      (AtomToolsFramework, GraphDocumentView.cpp)    *)
(*   FullscreenTrianglePass (Atom RPI, FullscreenTrianglePass.cpp)         *)
(*                                                                         *)
(* Each object is one record-valued variable whose fields carry the names  *)
(* of the C++ members.  Every method is an operator from the object (and   *)
(* the answers of the host framework it queries) to the object after the   *)
(* call, so that a method calling another one is the composition of the    *)
(* two operators.  The actions apply the methods to the variables.         *)
(***************************************************************************)
EXTENDS Integers, Sequences, FiniteSets

VARIABLES
    view,          \* the GraphDocumentView object
    docGraph,      \* what each document answers to GetGraphId
    viewCall,      \* history: the last call made on the view
    lastReported,  \* history: the answer of GetGraphId at the last tracked open
    pass,          \* the FullscreenTrianglePass object
    shader,        \* the shader asset as the asset system currently holds it
    output,        \* size of the image bound to the pass's first output
    frame,         \* position in the frame-graph callback sequence
    commandList,   \* commands recorded by the current frame
    inherited,     \* history: the parameters of the last FrameBeginInternal
    passCall       \* history: the last call made on the pass

viewVars == <<view, docGraph, viewCall, lastReported>>
passVars == <<pass, shader, output, frame, commandList, inherited, passCall>>
vars == <<view, docGraph, viewCall, lastReported,
          pass, shader, output, frame, commandList, inherited, passCall>>

-----------------------------------------------------------------------------
(***************************************************************************)
(*                           GraphDocumentView                             *)
(***************************************************************************)

\* Number of documents of the tool and of graph ids a document may report.
MaxDocuments == 2
MaxGraphs == 2

Documents == 1..MaxDocuments

\* GraphCanvas::GraphId() : the default-constructed, invalid id.
InvalidGraphId == 0
GraphIds == 1..MaxGraphs

IsValid(graphId) == graphId # InvalidGraphId

\* GraphView::SetActiveGraphId(activeGraphId, notify): the call as the view
\* makes it; the record keeps the id handed over and the notify flag.
SetActiveGraphId(v, activeGraphId, notify) ==
    [v EXCEPT !.m_activeGraphId = activeGraphId, !.notify = notify]

\* Mutant: the opened-before flag is never raised.
OnDocumentOpenedNoFlag(v, documentId, reported) ==
    IF v.m_documentId = documentId
    THEN LET a == SetActiveGraphId(v, reported, TRUE)
         IN  IF ~a.m_openedBefore /\ IsValid(reported)
             THEN [a EXCEPT !.showEntireGraph = @ + 1]
             ELSE a
    ELSE SetActiveGraphId(v, InvalidGraphId, FALSE)

\* Mutant: the graph id is activated whichever document was opened.
OnDocumentOpenedAnyDocument(v, documentId, reported) ==
    LET a == SetActiveGraphId(v, reported, TRUE)
    IN  IF ~a.m_openedBefore /\ IsValid(reported)
        THEN [a EXCEPT !.showEntireGraph = @ + 1, !.m_openedBefore = TRUE]
        ELSE a

\* Mutant: an open of another document leaves the canvas as it is.
OnDocumentOpenedIgnoreOthers(v, documentId, reported) ==
    IF v.m_documentId = documentId
    THEN LET a == SetActiveGraphId(v, reported, TRUE)
         IN  IF ~a.m_openedBefore /\ IsValid(reported)
             THEN [a EXCEPT !.showEntireGraph = @ + 1, !.m_openedBefore = TRUE]
             ELSE a
    ELSE v

\* GraphDocumentView::OnDocumentOpened.  `reported` is the value GetGraphId
\* leaves in activeGraphId: the document's graph id, or the invalid id the
\* local was initialised with when no document answers.
OnDocumentOpened(v, documentId, reported) ==
    IF v.m_documentId = documentId
    THEN LET a == SetActiveGraphId(v, reported, TRUE)
         IN  IF ~a.m_openedBefore /\ IsValid(reported)
             THEN [a EXCEPT !.showEntireGraph = @ + 1, !.m_openedBefore = TRUE]
             ELSE a
    ELSE SetActiveGraphId(v, InvalidGraphId, FALSE)

\* Mutant: the document id is not compared.
OnDocumentClosedAnyDocument(v, documentId) ==
    SetActiveGraphId(v, InvalidGraphId, TRUE)

\* GraphDocumentView::OnDocumentClosed.
OnDocumentClosed(v, documentId) ==
    IF v.m_documentId = documentId
    THEN SetActiveGraphId(v, InvalidGraphId, TRUE)
    ELSE v

\* GraphDocumentView::OnDocumentDestroyed.
OnDocumentDestroyed(v, documentId) ==
    IF v.m_documentId = documentId
    THEN SetActiveGraphId(v, InvalidGraphId, TRUE)
    ELSE v

\* The view before its constructor body runs: the base GraphView is built
\* with GraphCanvas::GraphId().  m_openedBefore is declared in the header;
\* whichever value it holds on entry, the constructor overwrites it.
InitView ==
    /\ view \in [constructed : {FALSE}, connected : {FALSE},
                 m_documentId : {0}, m_openedBefore : BOOLEAN,
                 m_activeGraphId : {InvalidGraphId}, notify : {FALSE},
                 showEntireGraph : {0}, showInConstructor : {0}]
    /\ docGraph \in [Documents -> {InvalidGraphId} \cup GraphIds]
    /\ viewCall = [op |-> "none", documentId |-> 0]
    /\ lastReported = InvalidGraphId

\* GraphDocumentView::GraphDocumentView.
ConstructView(documentId) ==
    /\ ~view.constructed
    /\ LET v0 == [view EXCEPT !.constructed = TRUE, !.connected = TRUE,
                              !.m_documentId = documentId]
           v1 == OnDocumentOpened(v0, documentId, docGraph[documentId])
       IN  view' = [v1 EXCEPT !.m_openedBefore = FALSE,
                              !.showInConstructor = v1.showEntireGraph]
    /\ lastReported' = docGraph[documentId]
    /\ viewCall' = [op |-> "GraphDocumentView", documentId |-> documentId]
    /\ UNCHANGED <<docGraph, passVars>>

\* GraphDocumentView::~GraphDocumentView: no notification is delivered after.
DestroyView ==
    /\ view.constructed /\ view.connected
    /\ view' = [view EXCEPT !.connected = FALSE]
    /\ viewCall' = [op |-> "~GraphDocumentView", documentId |-> 0]
    /\ UNCHANGED <<docGraph, lastReported, passVars>>

\* AtomToolsDocumentNotificationBus delivers OnDocumentOpened(documentId).
DocumentOpened(documentId) ==
    /\ view.connected
    /\ view' = OnDocumentOpened(view, documentId, docGraph[view.m_documentId])
    /\ lastReported' = IF documentId = view.m_documentId
                       THEN docGraph[view.m_documentId] ELSE lastReported
    /\ viewCall' = [op |-> "OnDocumentOpened", documentId |-> documentId]
    /\ UNCHANGED <<docGraph, passVars>>

\* AtomToolsDocumentNotificationBus delivers OnDocumentClosed(documentId).
DocumentClosed(documentId) ==
    /\ view.connected
    /\ view' = OnDocumentClosed(view, documentId)
    /\ viewCall' = [op |-> "OnDocumentClosed", documentId |-> documentId]
    /\ UNCHANGED <<docGraph, lastReported, passVars>>

\* AtomToolsDocumentNotificationBus delivers OnDocumentDestroyed(documentId).
DocumentDestroyed(documentId) ==
    /\ view.connected
    /\ view' = OnDocumentDestroyed(view, documentId)
    /\ viewCall' = [op |-> "OnDocumentDestroyed", documentId |-> documentId]
    /\ UNCHANGED <<docGraph, lastReported, passVars>>

\* The document side: a document gets, changes or loses its graph, which
\* changes what GraphDocumentRequests::GetGraphId answers from then on.
DocumentGraphChanged(documentId, graphId) ==
    /\ docGraph[documentId] # graphId
    /\ docGraph' = [docGraph EXCEPT ![documentId] = graphId]
    /\ viewCall' = [op |-> "GetGraphId", documentId |-> documentId]
    /\ UNCHANGED <<view, lastReported, passVars>>

NextView ==
    \/ \E d \in Documents : ConstructView(d)
    \/ DestroyView
    \/ \E d \in Documents : DocumentOpened(d)
    \/ \E d \in Documents : DocumentClosed(d)
    \/ \E d \in Documents : DocumentDestroyed(d)
    \/ \E d \in Documents, g \in {InvalidGraphId} \cup GraphIds :
           DocumentGraphChanged(d, g)

-----------------------------------------------------------------------------
(***************************************************************************)
(*            32-bit arithmetic of FrameBeginInternal                      *)
(*                                                                         *)
(* int32_t values are integers IntMin..IntMax.  A uint32_t value does not  *)
(* fit the checker's integers, so it is the pair [hi, lo] standing for     *)
(* hi * 2^31 + lo.  A float is its value counted in halves (3 is 1.5), so  *)
(* that the truncation of the float-to-integer cast has something to cut.  *)
(***************************************************************************)

IntMax == 2^30 + (2^30 - 1)
IntMin == (-IntMax) - 1

\* The uint32_t holding the non-negative int n.
U32(n) == [hi |-> 0, lo |-> n]

\* Mutant: the cast saturates negative values at zero.
Int32ToUint32Saturating(x) ==
    IF x >= 0 THEN [hi |-> 0, lo |-> x] ELSE [hi |-> 0, lo |-> 0]

\* static_cast<uint32_t>(int32_t): the value modulo 2^32.
Int32ToUint32(x) ==
    IF x >= 0 THEN [hi |-> 0, lo |-> x] ELSE [hi |-> 1, lo |-> (x + IntMax) + 1]

\* The int32_t a uint32_t is stored as (m_scissorState's fields): modulo 2^32.
Uint32ToInt32(u) ==
    IF u.hi = 0 THEN u.lo ELSE (u.lo - IntMax) - 1

\* operator< of uint32_t.
Uint32Less(a, b) == a.hi < b.hi \/ (a.hi = b.hi /\ a.lo < b.lo)

\* AZStd::min on uint32_t.
MinUint32(left, right) == IF Uint32Less(left, right) THEN left ELSE right

\* AZStd::min on int32_t, and on floats (compared through their halves).
MinSigned(left, right) == IF left < right THEN left ELSE right

\* static_cast<uint32_t>(float).  A value in (-1, 2^32) is truncated towards
\* zero.  For a value of -1 or less the cast is undefined behaviour: the
\* outcomes kept are the ones builds produce, namely 0 (saturating convert),
\* the truncated value modulo 2^32 (convert through 64 bits), 2^31 (the
\* "integer indefinite" of a 32-bit convert) and 2^32 - 1.
FloatToUint32(f) ==
    IF f >= 0 THEN {U32(f \div 2)}
    ELSE IF f = -1 THEN {U32(0)}
    ELSE {U32(0), Int32ToUint32(-((-f) \div 2)), [hi |-> 1, lo |-> 0],
          [hi |-> 1, lo |-> IntMax]}

\* static_cast<float>(uint32_t): exact for every value below 2^24, which
\* covers the extent of any image a device can create.
Uint32ToFloat(u) == CASE u.hi = 0 /\ u.lo < 2^24 -> 2 * u.lo

-----------------------------------------------------------------------------
(***************************************************************************)
(*                          FullscreenTrianglePass                         *)
(***************************************************************************)

\* Shader option lists UpdateShaderOptions is called with (0: the defaults).
MaxOptions == 2
\* Runs of UpdateSrgs explored: the load and the reloads after it.
MaxSrgUpdates == 3
\* Largest coordinate of the small range of inherited rectangles.
MaxCoord == 2

NullSrg == 0

NullPipelineState == [valid |-> FALSE, topology |-> "Undefined", options |-> 0]

\* RHI::DrawItem as default-constructed: no arguments set, nothing bound.
DefaultDrawItem ==
    [m_arguments |-> [type |-> "Unset", m_vertexCount |-> 0],
     m_pipelineState |-> NullPipelineState,
     m_stencilRef |-> 0,
     m_streamBufferViewCount |-> 0,
     m_indexBufferView |-> "nullptr"]

ZeroRect == [m_minX |-> 0, m_minY |-> 0, m_maxX |-> 0, m_maxY |-> 0]

\* The pass as RenderPass(descriptor), m_passDescriptor(descriptor) leave it.
\* History fields: srgUpdates counts the runs of UpdateSrgs that created groups,
\* shaderLoadFailed records that the constructor's load took an error return,
\* initialized and drawItemBuilt that InitializeInternal and BuildDrawItem ran.
NewPass(descriptor) ==
    [constructed |-> TRUE,
     destroyed |-> FALSE,
     m_passDescriptor |-> descriptor,
     m_shader |-> "nullptr",
     m_stencilRef |-> 0,
     m_pipelineStateForDraw |->
         [initialized |-> FALSE, options |-> 0, srgVariantFallback |-> NullSrg,
          outputFromPass |-> FALSE, topology |-> "Undefined", finalized |-> FALSE],
     m_shaderResourceGroup |-> NullSrg,
     m_drawShaderResourceGroup |-> NullSrg,
     dataMappingsBoundTo |-> NullSrg,
     srgUpdates |-> 0,
     queuedForInitialization |-> FALSE,
     reloadBusConnected |-> FALSE,
     m_item |-> DefaultDrawItem,
     m_viewportState |-> ZeroRect,
     m_scissorState |-> ZeroRect,
     shaderLoadFailed |-> FALSE,
     initialized |-> FALSE,
     drawItemBuilt |-> FALSE,
     estimatedItemCount |-> 0,
     boundPassSrg |-> NullSrg,
     boundDrawSrg |-> NullSrg,
     compiledSrgs |-> {}]

\* Mutant: the early return on a null shader is missing.
UpdateSrgsUnguarded(p, sh) ==
    LET n == p.srgUpdates + 1
        p1 == IF sh.passLayout
              THEN [p EXCEPT !.m_shaderResourceGroup = n, !.dataMappingsBoundTo = n]
              ELSE p
        p2 == [p1 EXCEPT !.m_drawShaderResourceGroup =
                             IF sh.drawLayout THEN n ELSE NullSrg,
                         !.srgUpdates = n]
    IN  [p2 EXCEPT !.m_pipelineStateForDraw.srgVariantFallback =
                       p2.m_shaderResourceGroup]

\* FullscreenTrianglePass::UpdateSrgs.  `sh` is the shader as it is now: whether
\* it has a layout in the Pass slot, and whether CreateDefaultDrawSrg yields a
\* group.  A group created by the n-th run is the number n.
UpdateSrgs(p, sh) ==
    IF p.m_shader = "nullptr" THEN p
    ELSE
    LET n == p.srgUpdates + 1
        p1 == IF sh.passLayout
              THEN [p EXCEPT !.m_shaderResourceGroup = n, !.dataMappingsBoundTo = n]
              ELSE p
        p2 == [p1 EXCEPT !.m_drawShaderResourceGroup =
                             IF sh.drawLayout THEN n ELSE NullSrg,
                         !.srgUpdates = n]
    IN  [p2 EXCEPT !.m_pipelineStateForDraw.srgVariantFallback =
                       p2.m_shaderResourceGroup]

\* FullscreenTrianglePass::LoadShader.  `found`: FindShaderAsset returns an asset
\* with a valid id; `created`: Shader::FindOrCreate returns a shader.
LoadShader(p, sh, found, created) ==
    IF ~p.m_passDescriptor.passData THEN p
    ELSE IF ~(p.m_passDescriptor.assetIdValid /\ found) THEN p
    ELSE IF ~created THEN [p EXCEPT !.m_shader = "nullptr"]
    ELSE
    LET p1 == [p EXCEPT !.m_shader = "shader",
                        !.m_stencilRef = p.m_passDescriptor.m_stencilRef,
                        !.m_pipelineStateForDraw.initialized = TRUE,
                        !.m_pipelineStateForDraw.options = 0,
                        !.m_pipelineStateForDraw.finalized = FALSE]
        p2 == UpdateSrgs(p1, sh)
    IN  [p2 EXCEPT !.queuedForInitialization = TRUE,
                   !.reloadBusConnected = TRUE]

\* Mutant: the draw is indexed.
BuildDrawItemIndexed(p) ==
    LET ps == [p.m_pipelineStateForDraw EXCEPT !.outputFromPass = TRUE,
                                               !.topology = "TriangleList",
                                               !.finalized = TRUE]
    IN  [p EXCEPT !.m_pipelineStateForDraw = ps,
                  !.m_item.m_arguments = [type |-> "Indexed", m_vertexCount |-> 3],
                  !.m_item.m_pipelineState =
                      [valid |-> TRUE, topology |-> ps.topology, options |-> ps.options],
                  !.m_item.m_stencilRef = p.m_stencilRef % 256,
                  !.drawItemBuilt = TRUE]

\* FullscreenTrianglePass::BuildDrawItem.
BuildDrawItem(p) ==
    LET ps == [p.m_pipelineStateForDraw EXCEPT !.outputFromPass = TRUE,
                                               !.topology = "TriangleList",
                                               !.finalized = TRUE]
    IN  [p EXCEPT !.m_pipelineStateForDraw = ps,
                  !.m_item.m_arguments = [type |-> "Linear", m_vertexCount |-> 3],
                  !.m_item.m_pipelineState =
                      [valid |-> TRUE, topology |-> ps.topology, options |-> ps.options],
                  !.m_item.m_stencilRef = p.m_stencilRef % 256,
                  !.drawItemBuilt = TRUE]

\* FullscreenTrianglePass::UpdateShaderOptions.
UpdateShaderOptions(p, shaderOptions) ==
    IF p.m_shader # "nullptr"
    THEN BuildDrawItem(
             [p EXCEPT !.m_pipelineStateForDraw.initialized = TRUE,
                       !.m_pipelineStateForDraw.options = shaderOptions,
                       !.m_pipelineStateForDraw.finalized = FALSE,
                       !.m_pipelineStateForDraw.srgVariantFallback =
                           p.m_shaderResourceGroup])
    ELSE p

\* FullscreenTrianglePass::InitializeInternal.
InitializeInternal(p) ==
    LET p1 == [p EXCEPT !.initialized = TRUE]
    IN  IF p1.m_shader = "nullptr" THEN p1 ELSE BuildDrawItem(p1)

\* Mutant: the scissor maxima are taken over without the clamp.
FrameBeginInternalScissorUnclamped(p, params, size, maxX, maxY) ==
    LET vMaxX == Uint32ToFloat(MinUint32(maxX, U32(size.m_width)))
        vMaxY == Uint32ToFloat(MinUint32(maxY, U32(size.m_height)))
        sMaxX == params.m_scissorState.m_maxX
        sMaxY == params.m_scissorState.m_maxY
    IN  [p EXCEPT
            !.m_viewportState =
                [m_maxX |-> vMaxX,
                 m_maxY |-> vMaxY,
                 m_minX |-> MinSigned(params.m_viewportState.m_minX, vMaxX),
                 m_minY |-> MinSigned(params.m_viewportState.m_minY, vMaxY)],
            !.m_scissorState =
                [m_maxX |-> sMaxX,
                 m_maxY |-> sMaxY,
                 m_minX |-> MinSigned(params.m_scissorState.m_minX, sMaxX),
                 m_minY |-> MinSigned(params.m_scissorState.m_minY, sMaxY)]]

\* FullscreenTrianglePass::FrameBeginInternal.  `size` is m_descriptor.m_image.m_size
\* of the output attachment; `maxX`, `maxY` are the results of the two casts
\* static_cast<uint32_t>(params.m_viewportState.m_max*).
FrameBeginInternal(p, params, size, maxX, maxY) ==
    LET vMaxX == Uint32ToFloat(MinUint32(maxX, U32(size.m_width)))
        vMaxY == Uint32ToFloat(MinUint32(maxY, U32(size.m_height)))
        sMaxX == Uint32ToInt32(MinUint32(Int32ToUint32(params.m_scissorState.m_maxX),
                                         U32(size.m_width)))
        sMaxY == Uint32ToInt32(MinUint32(Int32ToUint32(params.m_scissorState.m_maxY),
                                         U32(size.m_height)))
    IN  [p EXCEPT
            !.m_viewportState =
                [m_maxX |-> vMaxX,
                 m_maxY |-> vMaxY,
                 m_minX |-> MinSigned(params.m_viewportState.m_minX, vMaxX),
                 m_minY |-> MinSigned(params.m_viewportState.m_minY, vMaxY)],
            !.m_scissorState =
                [m_maxX |-> sMaxX,
                 m_maxY |-> sMaxY,
                 m_minX |-> MinSigned(params.m_scissorState.m_minX, sMaxX),
                 m_minY |-> MinSigned(params.m_scissorState.m_minY, sMaxY)]]

\* FullscreenTrianglePass::SetupFrameGraphDependencies.
SetupFrameGraphDependencies(p) == [p EXCEPT !.estimatedItemCount = 1]

\* FullscreenTrianglePass::CompileResources.
CompileResources(p) ==
    LET p1 == IF p.m_shaderResourceGroup # NullSrg
              THEN [p EXCEPT !.boundPassSrg = p.m_shaderResourceGroup,
                             !.compiledSrgs = {<<"pass", p.m_shaderResourceGroup>>}]
              ELSE [p EXCEPT !.boundPassSrg = NullSrg, !.compiledSrgs = {}]
    IN  IF p1.m_drawShaderResourceGroup # NullSrg
        THEN [p1 EXCEPT !.boundDrawSrg = p1.m_drawShaderResourceGroup,
                        !.compiledSrgs = @ \cup {<<"draw", p1.m_drawShaderResourceGroup>>}]
        ELSE [p1 EXCEPT !.boundDrawSrg = NullSrg]

\* FullscreenTrianglePass::BuildCommandListInternal: the commands it records.
BuildCommandListInternal(p) ==
    << [op |-> "SetShaderResourceGroups", arg |-> <<p.boundPassSrg, p.boundDrawSrg>>],
       [op |-> "SetViewport", arg |-> p.m_viewportState],
       [op |-> "SetScissor", arg |-> p.m_scissorState],
       [op |-> "Submit", arg |-> p.m_item] >>

-----------------------------------------------------------------------------
(***************************************************************************)
(* The pass's actions.  The pass system initialises a pass before it is    *)
(* rendered; the frame graph then calls FrameBeginInternal,                *)
(* SetupFrameGraphDependencies, CompileResources and                       *)
(* BuildCommandListInternal in this order once per frame; every other call *)
(* happens between frames.                                                 *)
(***************************************************************************)

StencilRefs == {0, 263}

\* A descriptor without FullscreenTrianglePassData, and the ones with it.
NoPassData == [passData |-> FALSE, assetIdValid |-> FALSE, m_stencilRef |-> 0]

PassDescriptors ==
    {NoPassData} \cup
    [passData : {TRUE}, assetIdValid : BOOLEAN, m_stencilRef : StencilRefs]

ShaderLayouts == [passLayout : BOOLEAN, drawLayout : BOOLEAN]

Rect(minX, minY, maxX, maxY) ==
    [m_minX |-> minX, m_minY |-> minY, m_maxX |-> maxX, m_maxY |-> maxY]

Size(width, height) == [m_width |-> width, m_height |-> height]

Alive == pass.constructed /\ ~pass.destroyed

InitPass ==
    /\ pass = [NewPass(NoPassData) EXCEPT !.constructed = FALSE]
    /\ shader \in ShaderLayouts
    /\ output = Size(1, 1)
    /\ frame = "idle"
    /\ commandList = << >>
    /\ inherited = [m_viewportState |-> ZeroRect, m_scissorState |-> ZeroRect]
    /\ passCall = "none"

\* FullscreenTrianglePass::FullscreenTrianglePass (through Create).
ConstructPass(descriptor, found, created) ==
    /\ ~pass.constructed
    /\ pass' = [LoadShader(NewPass(descriptor), shader, found, created)
                   EXCEPT !.shaderLoadFailed =
                       ~(descriptor.passData /\ descriptor.assetIdValid
                         /\ found /\ created)]
    /\ passCall' = "FullscreenTrianglePass"
    /\ UNCHANGED <<shader, output, frame, commandList, inherited, viewVars>>

\* FullscreenTrianglePass::~FullscreenTrianglePass.
DestroyPass ==
    /\ Alive /\ frame = "idle"
    /\ pass' = [pass EXCEPT !.destroyed = TRUE, !.reloadBusConnected = FALSE]
    /\ passCall' = "~FullscreenTrianglePass"
    /\ UNCHANGED <<shader, output, frame, commandList, inherited, viewVars>>

CallInitializeInternal ==
    /\ Alive /\ frame = "idle"
    /\ pass' = InitializeInternal(pass)
    /\ passCall' = "InitializeInternal"
    /\ UNCHANGED <<shader, output, frame, commandList, inherited, viewVars>>

CallUpdateShaderOptions(shaderOptions) ==
    /\ Alive /\ frame = "idle"
    /\ pass' = UpdateShaderOptions(pass, shaderOptions)
    /\ passCall' = "UpdateShaderOptions"
    /\ UNCHANGED <<shader, output, frame, commandList, inherited, viewVars>>

\* FullscreenTrianglePass::OnShaderReinitialized: the shader was rebuilt from
\* its reloaded asset, `layout` is what it now declares.
ShaderReinitialized(layout) ==
    /\ Alive /\ frame = "idle"
    /\ pass.srgUpdates < MaxSrgUpdates
    /\ shader' = layout
    /\ pass' = UpdateSrgs(pass, layout)
    /\ passCall' = "OnShaderReinitialized"
    /\ UNCHANGED <<output, frame, commandList, inherited, viewVars>>

\* FullscreenTrianglePass::OnShaderAssetReinitialized.
ShaderAssetReinitialized(layout) ==
    /\ Alive /\ frame = "idle"
    /\ pass.srgUpdates < MaxSrgUpdates
    /\ shader' = layout
    /\ pass' = UpdateSrgs(pass, layout)
    /\ passCall' = "OnShaderAssetReinitialized"
    /\ UNCHANGED <<output, frame, commandList, inherited, viewVars>>

\* The output attachment gets another size (the render target is resized).
OutputResized(size) ==
    /\ Alive /\ frame = "idle"
    /\ output # size
    /\ output' = size
    /\ passCall' = "OutputResized"
    /\ UNCHANGED <<pass, shader, frame, commandList, inherited, viewVars>>

FrameBegin(params) ==
    /\ Alive /\ frame = "idle"
    /\ pass.initialized
    /\ \E maxX \in FloatToUint32(params.m_viewportState.m_maxX),
          maxY \in FloatToUint32(params.m_viewportState.m_maxY) :
           pass' = FrameBeginInternal(pass, params, output, maxX, maxY)
    /\ inherited' = params
    /\ commandList' = << >>
    /\ frame' = "begun"
    /\ passCall' = "FrameBeginInternal"
    /\ UNCHANGED <<shader, output, viewVars>>

FrameSetup ==
    /\ Alive /\ frame = "begun"
    /\ pass' = SetupFrameGraphDependencies(pass)
    /\ frame' = "setup"
    /\ passCall' = "SetupFrameGraphDependencies"
    /\ UNCHANGED <<shader, output, commandList, inherited, viewVars>>

FrameCompile ==
    /\ Alive /\ frame = "setup"
    /\ pass' = CompileResources(pass)
    /\ frame' = "compiled"
    /\ passCall' = "CompileResources"
    /\ UNCHANGED <<shader, output, commandList, inherited, viewVars>>

FrameBuildCommandList ==
    /\ Alive /\ frame = "compiled"
    /\ commandList' = commandList \o BuildCommandListInternal(pass)
    /\ frame' = "idle"
    /\ passCall' = "BuildCommandListInternal"
    /\ UNCHANGED <<pass, shader, output, inherited, viewVars>>

\* Inherited rectangles and output sizes of the lifecycle specification.
PassFrameParams ==
    { [m_viewportState |-> Rect(0, 0, 2 * m, 2 * m), m_scissorState |-> Rect(0, 0, m, m)] :
          m \in {MaxCoord} }

PassImageSizes == {Size(1, 1), Size(MaxCoord, MaxCoord)}

NextPass ==
    \/ \E d \in PassDescriptors, found \in BOOLEAN, created \in BOOLEAN :
           ConstructPass(d, found, created)
    \/ DestroyPass
    \/ CallInitializeInternal
    \/ \E o \in 1..MaxOptions : CallUpdateShaderOptions(o)
    \/ \E l \in ShaderLayouts : ShaderReinitialized(l)
    \/ \E l \in ShaderLayouts : ShaderAssetReinitialized(l)
    \/ \E s \in PassImageSizes : OutputResized(s)
    \/ \E f \in PassFrameParams : FrameBegin(f)
    \/ FrameSetup
    \/ FrameCompile
    \/ FrameBuildCommandList

\* Inherited rectangles and output sizes of the clamping specification: the
\* int32_t extremes, -1 and a small range around the image extents for the
\* scissor; negative, fractional, whole and large floats (in halves) for the
\* viewport.
ScissorCoords == {IntMin, -1, IntMax} \cup (0..MaxCoord + 1)

ScissorRects ==
    { Rect(minX, minY, maxX, maxY) :
          minX \in ScissorCoords, maxX \in ScissorCoords,
          minY \in {-1, 1}, maxY \in {-1, 1} }

ViewportCoords == {-4, -1, 0, 1, 3, 2 * MaxCoord + 2, IntMax}

ViewportRects ==
    { Rect(minX, minY, maxX, maxY) :
          minX \in ViewportCoords, maxX \in ViewportCoords,
          minY \in {-4, 3}, maxY \in {-4, 3} }

ClampFrameParams ==
    { [m_viewportState |-> v, m_scissorState |-> Rect(0, 0, 1, 1)] : v \in ViewportRects }
    \cup
    { [m_viewportState |-> Rect(0, 0, 2, 2), m_scissorState |-> r] : r \in ScissorRects }

ClampImageSizes == { Size(w, h) : w \in 0..MaxCoord, h \in {1, MaxCoord} }

\* A descriptor whose shader loads.
GoodDescriptor == [passData |-> TRUE, assetIdValid |-> TRUE, m_stencilRef |-> 0]

NextClamp ==
    \/ \E f \in ClampFrameParams : FrameBegin(f)
    \/ FrameSetup
    \/ FrameCompile
    \/ FrameBuildCommandList

\* The graph view specification starts with no pass, the pass specifications
\* with no view.
InitViewSpec ==
    /\ InitView
    /\ InitPass
    /\ shader = [passLayout |-> TRUE, drawLayout |-> TRUE]

InitPassSpec ==
    /\ InitPass
    /\ InitView
    /\ ~view.m_openedBefore
    /\ docGraph = [d \in Documents |-> InvalidGraphId]

\* The clamping specification starts from a pass that was constructed with a
\* shader that loads and then initialised, bound to an output of any size.
InitClampSpec ==
    /\ shader = [passLayout |-> TRUE, drawLayout |-> TRUE]
    /\ pass = InitializeInternal(LoadShader(NewPass(GoodDescriptor), shader, TRUE, TRUE))
    /\ output \in ClampImageSizes
    /\ frame = "idle"
    /\ commandList = << >>
    /\ inherited = [m_viewportState |-> ZeroRect, m_scissorState |-> ZeroRect]
    /\ passCall = "InitializeInternal"
    /\ InitView
    /\ ~view.m_openedBefore
    /\ docGraph = [d \in Documents |-> InvalidGraphId]

\* The graph view and the notifications it receives.
SpecView == InitViewSpec /\ [][NextView]_vars

\* The pass: construction, initialisation, option and reload calls, frames.
SpecPass == InitPassSpec /\ [][NextPass]_vars

\* Frames of a pass with a loaded shader, over wide ranges of inherited rectangles.
SpecClamp == InitClampSpec /\ [][NextClamp]_vars

-----------------------------------------------------------------------------
(***************************************************************************)
(*                    Properties of GraphDocumentView                      *)
(***************************************************************************)

TrackedCall(op) == viewCall.op = op /\ viewCall.documentId = view.m_documentId

OtherCall(op) == viewCall.op = op /\ viewCall.documentId # view.m_documentId

C6_ActiveIsReported ==
    /\ view.m_activeGraphId \in {InvalidGraphId, lastReported}
    /\ TrackedCall("OnDocumentOpened") => view.m_activeGraphId = lastReported

\* A tracked open activated the graph the document reported, and the document
\* has moved to another graph since: the active id is still the reported one.
C6_Witness ==
    /\ IsValid(view.m_activeGraphId)
    /\ view.m_activeGraphId = lastReported
    /\ viewCall.op = "GetGraphId"
    /\ IsValid(docGraph[view.m_documentId])
    /\ docGraph[view.m_documentId] # view.m_activeGraphId

\* C7: OnDocumentClosed and OnDocumentDestroyed make the active graph id
\* invalid when the notification's id is the tracked id, and leave the active
\* graph id and the opened-before flag as they were for any other id.
C7_CloseDeactivatesTrackedOnly ==
    [][ viewCall'.op \in {"OnDocumentClosed", "OnDocumentDestroyed"} =>
            IF viewCall'.documentId = view.m_documentId
            THEN view'.m_activeGraphId = InvalidGraphId
            ELSE /\ view'.m_activeGraphId = view.m_activeGraphId
                 /\ view'.m_openedBefore = view.m_openedBefore ]_vars

\* A close of another document left the active graph of the view in place.
C7_Witness ==
    /\ OtherCall("OnDocumentClosed")
    /\ IsValid(view.m_activeGraphId)
    /\ view.m_openedBefore

\* C10: an OnDocumentOpened for another document sets the active graph id to
\* the invalid id without the notify flag, requests no centring and leaves the
\* opened-before flag; and an inactive view becomes active only by an
\* OnDocumentOpened for the tracked id.
C10_OtherOpenDeactivates ==
    [][ /\ (viewCall'.op = "OnDocumentOpened"
              /\ viewCall'.documentId # view.m_documentId) =>
                 /\ view'.m_activeGraphId = InvalidGraphId
                 /\ ~view'.notify
                 /\ view'.showEntireGraph = view.showEntireGraph
                 /\ view'.m_openedBefore = view.m_openedBefore
        /\ (~IsValid(view.m_activeGraphId) /\ IsValid(view'.m_activeGraphId)) =>
                 /\ viewCall'.op \in {"GraphDocumentView", "OnDocumentOpened"}
                 /\ viewCall'.documentId = view'.m_documentId ]_vars

\* The open of another document deactivated a view whose graph was active.
C10_Witness ==
    /\ OtherCall("OnDocumentOpened")
    /\ IsValid(lastReported)
    /\ view.m_openedBefore
    /\ ~IsValid(view.m_activeGraphId)
    /\ ~view.notify

-----------------------------------------------------------------------------
(***************************************************************************)
(*                  Properties of FullscreenTrianglePass                   *)
(***************************************************************************)

\* The positions of the command list that hold the command `op`.
Commands(op) == { i \in DOMAIN commandList : commandList[i].op = op }

\* C2 as stated: while m_shader is null (the load failed), no frame's
\* BuildCommandListInternal submits a draw.
C2_NoSubmitWithoutShader ==
    pass.m_shader = "nullptr" => Commands("Submit") = {}

\* C3: a pass whose shader load failed at construction stays inert whatever
\* is called later: m_shader is null, the pipeline state is neither initialised
\* nor finalized, BuildDrawItem has not run, there is no pass and no draw
\* resource group, the pass is not queued for initialization and not
\* connected to the shader reload bus.
C3_FailedLoadStaysInert ==
    pass.shaderLoadFailed =>
        /\ pass.m_shader = "nullptr"
        /\ ~pass.m_pipelineStateForDraw.initialized
        /\ ~pass.m_pipelineStateForDraw.finalized
        /\ ~pass.drawItemBuilt
        /\ pass.m_item = DefaultDrawItem
        /\ pass.m_shaderResourceGroup = NullSrg
        /\ pass.m_drawShaderResourceGroup = NullSrg
        /\ ~pass.queuedForInitialization
        /\ ~pass.reloadBusConnected

\* A pass whose load failed has been initialised and then told of a reload.
C3_Witness ==
    /\ pass.shaderLoadFailed
    /\ pass.m_passDescriptor.passData
    /\ pass.initialized
    /\ passCall \in {"OnShaderReinitialized", "OnShaderAssetReinitialized"}

\* C4: with the shader loaded and InitializeInternal run, a
\* BuildCommandListInternal submits exactly one draw item: a linear draw of 3
\* vertices, triangle-list topology, no vertex and no index buffer; also after
\* UpdateShaderOptions calls and reload notifications.
C4_OneLinearDrawOfThree ==
    (passCall = "BuildCommandListInternal"
       /\ pass.m_shader # "nullptr" /\ pass.initialized) =>
        /\ Cardinality(Commands("Submit")) = 1
        /\ pass.estimatedItemCount = 1
        /\ \A i \in Commands("Submit") :
             /\ commandList[i].arg.m_arguments = [type |-> "Linear", m_vertexCount |-> 3]
             /\ commandList[i].arg.m_pipelineState.valid
             /\ commandList[i].arg.m_pipelineState.topology = "TriangleList"
             /\ commandList[i].arg.m_streamBufferViewCount = 0
             /\ commandList[i].arg.m_indexBufferView = "nullptr"

\* A frame was built after the options were changed and the shader reloaded.
C4_Witness ==
    /\ passCall = "BuildCommandListInternal"
    /\ pass.m_shader # "nullptr"
    /\ pass.initialized
    /\ pass.srgUpdates >= 2
    /\ \E i \in Commands("Submit") : commandList[i].arg.m_pipelineState.options >= 1

\* C8 as stated: after a reload notification, the next CompileResources binds
\* and compiles the resource groups the most recent reload created.
C8_CompileUsesLatestSrgs ==
    (passCall = "CompileResources" /\ pass.srgUpdates >= 2) =>
        /\ pass.boundPassSrg \in {NullSrg, pass.srgUpdates}
        /\ pass.boundDrawSrg \in {NullSrg, pass.srgUpdates}
        /\ pass.compiledSrgs \subseteq
               {<<"pass", pass.srgUpdates>>, <<"draw", pass.srgUpdates>>}

\* Inside a frame, and until the next call after its command list is built.
InFrame == frame # "idle" \/ passCall = "BuildCommandListInternal"

RectWithin(r, width, height) ==
    /\ r.m_maxX <= width
    /\ r.m_maxY <= height
    /\ r.m_minX <= r.m_maxX
    /\ r.m_minY <= r.m_maxY

C9_ScissorIsTrueClamp ==
    InFrame =>
        /\ pass.m_scissorState.m_maxX =
               MinSigned(inherited.m_scissorState.m_maxX, output.m_width)
        /\ pass.m_scissorState.m_maxY =
               MinSigned(inherited.m_scissorState.m_maxY, output.m_height)
        /\ pass.m_scissorState.m_maxX <= inherited.m_scissorState.m_maxX
        /\ pass.m_scissorState.m_maxY <= inherited.m_scissorState.m_maxY

=============================================================================
